---- MODULE Spec2Model ----
(***************************************************************************)
(* A model of pystac_api.item_search.ItemSearch: construction of the       *)
(* search request, the count query matched(), the page generator           *)
(* item_collections() and the flattened, truncated item generator items(). *)
(* The HTTP transport (make_request), the page loop (get_pages) and the    *)
(* default continuation resolver (simple_stac_resolver) live in            *)
(* pystac_api.stac_io and are modelled from their description.             *)
(***************************************************************************)
EXTENDS Integers, Sequences, FiniteSets, TLC

VARIABLES
    args,                \* the keyword arguments __init__ was called with
    request,             \* request objects by reference; request[SelfRef] is self.request
    _search_parameters,  \* self._search_parameters
    _max_items,          \* self._max_items
    _method,             \* self._method, the attribute items() assigns on a 405
    server,              \* the server's pages: a sequence of feature sequences
    gens,                \* the generators handed out by items() / item_collections()
    running,             \* the generator blocked in an HTTP call, 0 when none is
    matchedSent,         \* the requests the last matched() call sent
    matchedResult,       \* what the last matched() call returned or raised
    dtValue,             \* the argument of _format_datetime
    dtResult             \* what _format_datetime returned

vars == <<args, request, _search_parameters, _max_items, _method, server, gens,
          running, matchedSent, matchedResult, dtValue, dtResult>>

(***************************************************************************)
(* Bounds of the model.                                                    *)
(***************************************************************************)
MaxPages == 3        \* the server holds 1..MaxPages pages
MaxPageSize == 2     \* each page holds 0..MaxPageSize features
MaxItems == 3        \* max_items is None or 0..MaxItems
MaxCalls == 2        \* generators created per session

(***************************************************************************)
(* Optional values: Python's None and a present value.                     *)
(***************************************************************************)
None == [some |-> FALSE, val |-> 0]
Some(v) == [some |-> TRUE, val |-> v]
NoneMap == [some |-> FALSE, val |-> <<>>]
EmptyMap == <<>>

SelfRef == 0
Update(m, k, v) == [x \in (DOMAIN m) \cup {k} |-> IF x = k THEN v ELSE m[x]]

(***************************************************************************)
(* __init__: the request and the search parameters.                        *)
(***************************************************************************)
SearchParameters(limit, intersects) ==
    LET params == [k \in {"limit", "intersects"} |->
                      IF k = "limit" THEN limit ELSE intersects]
        present == {k \in DOMAIN params : params[k].some}
    IN [k \in present |-> params[k].val]

Request(method, url) ==
    [method |-> method, url |-> url, json |-> NoneMap, params |-> EmptyMap]

ItemSearchRequest(method, url, search_parameters) ==
    IF method = "POST"
    THEN [Request(method, url) EXCEPT !.json = Some(search_parameters)]
    ELSE [Request(method, url) EXCEPT !.params = search_parameters]

method == request[SelfRef].method
url == request[SelfRef].url

(***************************************************************************)
(* The server: a finite chain of pages, page k linking to page k + 1.      *)
(* Features are numbered 1, 2, ... in page order.  A URL is the number of  *)
(* the page it addresses; the search endpoint itself is page 1.            *)
(***************************************************************************)
RECURSIVE SumTo(_, _)
SumTo(sizes, k) == IF k = 0 THEN 0 ELSE sizes[k] + SumTo(sizes, k - 1)

PageSizes == UNION {[1..n -> 0..MaxPageSize] : n \in 1..MaxPages}
ServerPages(sizes) ==
    [k \in 1..Len(sizes) |-> [j \in 1..sizes[k] |-> SumTo(sizes, k - 1) + j]]

SearchUrl == 1
Page(k) ==
    [features |-> server[k],
     next |-> IF k < Len(server) THEN Some(k + 1) ELSE None]

StatusOK == 200
MethodNotAllowed == 405
ServerError == 500
ErrorCodes == {MethodNotAllowed, ServerError}

(***************************************************************************)
(* stac_io: the transport, the page loop and the default resolver.         *)
(***************************************************************************)
\* make_request(session, request, additional_parameters): the request as sent,
\* a copy of `request` with the additional parameters merged into its JSON body
\* (POST) or its query parameters (any other method).
make_request(req, additional) ==
    LET merge(m) == [x \in (DOMAIN m) \cup (DOMAIN additional) |->
                        IF x \in DOMAIN additional THEN additional[x] ELSE m[x]]
    IN IF req.method = "POST"
       THEN [req EXCEPT !.json = Some(merge(IF @.some THEN @.val ELSE EmptyMap))]
       ELSE [req EXCEPT !.params = merge(@)]

\* simple_stac_resolver(link, original_request): the request for the linked page.
simple_stac_resolver(href, original_request) ==
    [original_request EXCEPT !.url = href]

(***************************************************************************)
(* Generators.  A generator object is created by items() or                *)
(* item_collections(); its body runs when the consumer calls next() on it. *)
(***************************************************************************)
Gens == DOMAIN gens

NoGen ==
    [kind |-> "none", phase |-> "created", state |-> "HAS_NEXT", started |-> FALSE,
     ref |-> SelfRef, page |-> 0, pos |-> 0, taken |-> 0, out |-> <<>>,
     log |-> <<>>, err |-> 0, restartAt |-> 0]

NewGen(kind) == [NoGen EXCEPT !.kind = kind]

Live(g) == g.kind # "none" /\ g.phase \notin {"done", "raised"}

\* The effect of one step of generator i: its new frame, the request objects,
\* and whether it is now blocked in an HTTP call.
Step(i, g, reqs, blocked) ==
    /\ gens' = [gens EXCEPT ![i] = g]
    /\ request' = reqs
    /\ running' = IF blocked THEN i ELSE 0

\* Sending the request object g.ref over HTTP.
Send(i, g, reqs) ==
    Step(i, [g EXCEPT !.log = Append(@, [req |-> make_request(reqs[g.ref], EmptyMap),
                                          status |-> 0])],
         reqs, TRUE)

\* item_collections(): request = deepcopy(self.request).  The copy is a new
\* request object, held at the generator's own reference.
shared_request(own) == SelfRef

deepcopy_request(own) == own

item_collections_start(i, g, reqs) ==
    LET ref == deepcopy_request(i)
    IN Send(i, [g EXCEPT !.started = TRUE, !.ref = ref, !.state = "HAS_NEXT"],
            [reqs EXCEPT ![ref] = reqs[SelfRef]])

\* get_pages, resumed after it yielded page g.page: ask the resolver for the
\* next request; send it, or finish when the page has no "next" link.
\* `finished` is the frame of the enclosing generator once the loop is over.
get_pages_resume(i, g, reqs, finished) ==
    LET link == Page(g.page).next
    IN IF link.some
       THEN Send(i, g, [reqs EXCEPT ![g.ref] = simple_stac_resolver(link.val, @)])
       ELSE Step(i, [finished EXCEPT !.state = "DONE"], reqs, FALSE)

\* next() on the page loop of generator i.
get_pages_next(i, g, reqs, finished) ==
    IF ~g.started
    THEN item_collections_start(i, g, reqs)
    ELSE get_pages_resume(i, g, reqs, finished)

\* items._paginate: `yield from item_collection.features` for each page.
paginate_next(i, g, reqs) ==
    IF g.page > 0 /\ g.pos < Len(Page(g.page).features)
    THEN Step(i, [g EXCEPT !.pos = @ + 1, !.taken = @ + 1,
                           !.out = Append(@, Page(g.page).features[g.pos + 1])],
              reqs, FALSE)
    ELSE get_pages_next(i, g, reqs, [g EXCEPT !.phase = "done"])

\* it.islice(_paginate(), self._max_items): stop, without touching the
\* underlying generator, once max_items elements have been passed on.
islice_off_by_one(taken, stop) == stop.some /\ taken > stop.val

islice_exhausted(taken, stop) == stop.some /\ taken >= stop.val

islice_next(i, g, reqs) ==
    IF islice_exhausted(g.taken, _max_items)
    THEN Step(i, [g EXCEPT !.phase = "done"], reqs, FALSE)
    ELSE paginate_next(i, g, reqs)

\* items(), the except clause: is the error answered by a restart?
restarts_on_any(code) == TRUE

restarts_on(code) == code = MethodNotAllowed

\* items(), the restart: self._method = 'GET', then a new islice over a new
\* _paginate() generator.
items_restart(i, g, reqs) ==
    /\ _method' = "GET"
    /\ islice_next(i, [g EXCEPT !.phase = "except", !.started = FALSE, !.page = 0,
                               !.pos = 0, !.taken = 0, !.state = "HAS_NEXT",
                               !.restartAt = Len(g.log)],
                   reqs)

\* An exception leaving the generator.
Raise(i, g, reqs, code) ==
    Step(i, [g EXCEPT !.phase = "raised", !.err = code], reqs, FALSE)

(***************************************************************************)
(* Actions.                                                                *)
(***************************************************************************)
\* search.items(): a new generator object; nothing runs yet.
items(i) ==
    /\ i \in Gens
    /\ running = 0
    /\ gens[i].kind = "none"
    /\ \A j \in Gens : j < i => gens[j].kind # "none"
    /\ gens' = [gens EXCEPT ![i] = NewGen("items")]
    /\ UNCHANGED <<args, request, _search_parameters, _max_items, _method, server,
                   running, matchedSent, matchedResult, dtValue, dtResult>>

\* search.item_collections(): a new generator object; nothing runs yet.
item_collections(i) ==
    /\ i \in Gens
    /\ running = 0
    /\ gens[i].kind = "none"
    /\ \A j \in Gens : j < i => gens[j].kind # "none"
    /\ gens' = [gens EXCEPT ![i] = NewGen("item_collections")]
    /\ UNCHANGED <<args, request, _search_parameters, _max_items, _method, server,
                   running, matchedSent, matchedResult, dtValue, dtResult>>

\* next(g) on a generator of items(), up to its next yield, return, raise or
\* HTTP call.
next_items(i) ==
    /\ i \in Gens
    /\ running = 0
    /\ gens[i].kind = "items"
    /\ Live(gens[i])
    /\ islice_next(i, IF gens[i].phase = "created"
                      THEN [gens[i] EXCEPT !.phase = "try"] ELSE gens[i], request)
    /\ UNCHANGED <<args, _search_parameters, _max_items, _method, server,
                   matchedSent, matchedResult, dtValue, dtResult>>

\* next(g) on a generator of item_collections().
next_item_collections(i) ==
    /\ i \in Gens
    /\ running = 0
    /\ gens[i].kind = "item_collections"
    /\ Live(gens[i])
    /\ get_pages_next(i, [gens[i] EXCEPT !.phase = "active"], request,
                      [gens[i] EXCEPT !.phase = "done"])
    /\ UNCHANGED <<args, _search_parameters, _max_items, _method, server,
                   matchedSent, matchedResult, dtValue, dtResult>>

\* The transport returns the page the blocked generator asked for.
ReceivePage(i) ==
    /\ i \in Gens
    /\ running = i
    /\ LET g == [gens[i] EXCEPT !.log[Len(gens[i].log)].status = StatusOK,
                                !.page = request[gens[i].ref].url, !.pos = 0]
       IN IF g.kind = "items"
          THEN paginate_next(i, g, request)
          ELSE Step(i, [g EXCEPT !.out = Append(@, g.page)], request, FALSE)
    /\ UNCHANGED <<args, _search_parameters, _max_items, _method, server,
                   matchedSent, matchedResult, dtValue, dtResult>>

\* The transport raises an HTTPError with status `code` in the blocked generator.
ReceiveError(i, code) ==
    /\ i \in Gens
    /\ running = i
    /\ LET g == [gens[i] EXCEPT !.log[Len(gens[i].log)].status = code]
       IN IF g.kind = "items" /\ g.phase = "try" /\ restarts_on(code)
          THEN items_restart(i, g, request)
          ELSE Raise(i, g, request, code) /\ UNCHANGED _method
    /\ UNCHANGED <<args, _search_parameters, _max_items, server,
                   matchedSent, matchedResult, dtValue, dtResult>>

(***************************************************************************)
(* _format_datetime.  A datetime.datetime is its calendar fields and its   *)
(* UTC offset in minutes (None when naive).  A str is the sequence of the  *)
(* tokens that '/' separates in it; a list is its elements.                *)
(***************************************************************************)
NoDatetime ==
    [year |-> 0, month |-> 0, day |-> 0, hour |-> 0, minute |-> 0, second |-> 0,
     microsecond |-> 0, utcoffset |-> None]

NoneValue == [type |-> "NoneType", s |-> "", dt |-> NoDatetime]
StrValue(s) == [type |-> "str", s |-> s, dt |-> NoDatetime]
DatetimeValue(d) == [type |-> "datetime", s |-> "", dt |-> d]

\* A value of DatetimeLike: one element, a string of tokens, or a list.
Single(e) == [shape |-> e.type, elems |-> <<e>>]
String(tokens) == [shape |-> "str", elems |-> [k \in DOMAIN tokens |-> StrValue(tokens[k])]]
List(elems) == [shape |-> "list", elems |-> elems]

\* Results: None, a str, or a tuple of strs.
NoneResult == [type |-> "NoneType", s |-> "", items |-> <<>>]
StrResult(s) == [type |-> "str", s |-> s, items |-> <<>>]
TupleResult(strs) == [type |-> "tuple", s |-> "", items |-> strs]
NotCalled == [type |-> "not called", s |-> "", items |-> <<>>]

IsLeap(y) == (y % 4 = 0 /\ y % 100 # 0) \/ y % 400 = 0
DaysInMonth(y, m) ==
    IF m = 2 THEN (IF IsLeap(y) THEN 29 ELSE 28)
    ELSE IF m \in {4, 6, 9, 11} THEN 30 ELSE 31

\* dt.astimezone(pytz.UTC).replace(tzinfo=None), for an offset of less than a day.
astimezone_utc(d) ==
    LET mins == d.hour * 60 + d.minute - d.utcoffset.val
        shift == mins \div 1440
        hm == mins % 1440
        ymd == IF shift = 0 THEN <<d.year, d.month, d.day>>
               ELSE IF shift < 0
               THEN (IF d.day > 1 THEN <<d.year, d.month, d.day - 1>>
                     ELSE IF d.month > 1
                     THEN <<d.year, d.month - 1, DaysInMonth(d.year, d.month - 1)>>
                     ELSE <<d.year - 1, 12, 31>>)
               ELSE (IF d.day < DaysInMonth(d.year, d.month)
                     THEN <<d.year, d.month, d.day + 1>>
                     ELSE IF d.month < 12 THEN <<d.year, d.month + 1, 1>>
                     ELSE <<d.year + 1, 1, 1>>)
    IN [d EXCEPT !.year = ymd[1], !.month = ymd[2], !.day = ymd[3],
                 !.hour = hm \div 60, !.minute = hm % 60, !.utcoffset = None]

\* The decimal digits of n, zero-padded to `width` (the %02d, %04d, %06d of isoformat).
RECURSIVE ZeroPad(_, _)
ZeroPad(n, width) ==
    IF width <= 1 \/ n >= 10 ^ (width - 1)
    THEN ToString(n)
    ELSE "0" \o ZeroPad(n, width - 1)

\* dt.isoformat('T'): YYYY-MM-DDTHH:MM:SS, then .ffffff when microsecond is not 0.
isoformat(d) ==
    ZeroPad(d.year, 4) \o "-" \o ZeroPad(d.month, 2) \o "-" \o ZeroPad(d.day, 2)
    \o "T" \o ZeroPad(d.hour, 2) \o ":" \o ZeroPad(d.minute, 2)
    \o ":" \o ZeroPad(d.second, 2)
    \o (IF d.microsecond # 0 THEN "." \o ZeroPad(d.microsecond, 6) ELSE "")

\* _format_datetime._format(dt)
_format(e) ==
    IF e.type = "NoneType" THEN ".."
    ELSE IF e.type = "str" THEN e.s
    ELSE isoformat(IF e.dt.utcoffset.some THEN astimezone_utc(e.dt) ELSE e.dt) \o "Z"

\* '/'.join(strs)
RECURSIVE join(_)
join(strs) ==
    IF Len(strs) = 0 THEN ""
    ELSE IF Len(strs) = 1 THEN strs[1]
    ELSE strs[1] \o "/" \o join(Tail(strs))

\* _format_datetime(value)
_format_datetime(value) ==
    IF value.shape = "NoneType" THEN NoneResult
    ELSE IF value.shape = "str"
    THEN StrResult(join([k \in DOMAIN value.elems |-> _format(value.elems[k])]))
    ELSE IF value.shape = "list"
    THEN StrResult(join([k \in DOMAIN value.elems |-> _format(value.elems[k])]))
    ELSE TupleResult(<<_format(value.elems[1])>>)

\* The inputs explored: timestamps around day, month and year boundaries with
\* offsets east and west of UTC, RFC 3339 strings, and the open-range marker.
Datetimes ==
    {[year |-> ymd[1], month |-> ymd[2], day |-> ymd[3], hour |-> hms[1],
      minute |-> hms[2], second |-> hms[3], microsecond |-> hms[4], utcoffset |-> tz] :
        ymd \in {<<2020, 6, 1>>, <<2020, 1, 1>>, <<2020, 2, 28>>, <<2019, 12, 31>>},
        hms \in {<<12, 0, 0, 0>>, <<0, 30, 5, 0>>, <<23, 45, 59, 1500>>},
        tz \in {None, Some(0), Some(120), Some(0 - 300)}}
Timestamps == {"2020-01-01T00:00:00Z", "2021-06-30T23:59:59Z", ".."}
Elements ==
    {NoneValue} \cup {StrValue(t) : t \in Timestamps} \cup {DatetimeValue(d) : d \in Datetimes}
DatetimeLike ==
    {Single(e) : e \in Elements}
    \cup {String(<<a, b>>) : a \in Timestamps, b \in Timestamps}
    \cup {List(<<a, b>>) : a \in Elements, b \in {NoneValue} \cup {StrValue(t) : t \in Timestamps}}
    \cup {List(<<a, DatetimeValue(b)>>) :
             a \in {NoneValue, StrValue("2020-01-01T00:00:00Z")}, b \in Datetimes}

\* A call of _format_datetime.
format_datetime ==
    /\ dtResult = NotCalled
    /\ dtResult' = _format_datetime(dtValue)
    /\ UNCHANGED <<args, request, _search_parameters, _max_items, _method, server,
                   gens, running, matchedSent, matchedResult, dtValue>>

(***************************************************************************)
(* matched()                                                               *)
(***************************************************************************)
\* The additional parameters of the count request.
matched_parameters == [k \in {"limit"} |-> 0]

\* The outcome for a decoded response.
matched_outcome(resp) ==
    IF ~resp.numberMatched.some
    THEN [kind |-> "APIError", val |-> 0, resp |-> resp]
    ELSE [kind |-> "return", val |-> resp.numberMatched.val, resp |-> resp]

\* The responses the server may give to a count request: with or without the
\* numberMatched field.
CountResponses ==
    {[numberMatched |-> n] :
        n \in {None, Some(SumTo([k \in 1..Len(server) |-> Len(server[k])], Len(server)))}}

NoResponse == [numberMatched |-> None]
NoResult == [kind |-> "none", val |-> 0, resp |-> NoResponse]

\* matched() merging the count parameters into self.request itself.
matched_in_place ==
    /\ running = 0
    /\ matchedSent' = <<make_request(request[SelfRef], matched_parameters)>>
    /\ request' = [request EXCEPT ![SelfRef] = make_request(@, matched_parameters)]
    /\ \E resp \in CountResponses : matchedResult' = matched_outcome(resp)
    /\ UNCHANGED <<args, _search_parameters, _max_items, _method, server,
                   gens, running, dtValue, dtResult>>

\* search.matched(), answered by a response.
matched ==
    /\ running = 0
    /\ matchedSent' = <<make_request(request[SelfRef], matched_parameters)>>
    /\ \E resp \in CountResponses : matchedResult' = matched_outcome(resp)
    /\ UNCHANGED <<args, request, _search_parameters, _max_items, _method, server,
                   gens, running, dtValue, dtResult>>

\* search.matched(), the transport raising an HTTPError.
matched_error ==
    /\ running = 0
    /\ matchedSent' = <<make_request(request[SelfRef], matched_parameters)>>
    /\ \E code \in ErrorCodes : matchedResult' = [kind |-> "HTTPError", val |-> code, resp |-> NoResponse]
    /\ UNCHANGED <<args, request, _search_parameters, _max_items, _method, server,
                   gens, running, dtValue, dtResult>>

(***************************************************************************)
(* The session after ItemSearch(url, method=..., intersects=..., limit=..., *)
(* max_items=...), against a server, with n generator objects to hand out. *)
(***************************************************************************)
Methods == {"GET", "POST", "None"}
Intersects == {None, Some(1)}
Limits == {None, Some(10)}
MaxItemsArgs == {None} \cup {Some(n) : n \in 0..MaxItems}
Args == [method : Methods, intersects : Intersects, limit : Limits,
         max_items : MaxItemsArgs]

ItemSearch(a, sizes, n) ==
    /\ args = a
    /\ _search_parameters = SearchParameters(a.limit, a.intersects)
    /\ request = [r \in {SelfRef} \cup (1..n) |->
                    ItemSearchRequest(a.method, SearchUrl,
                                      SearchParameters(a.limit, a.intersects))]
    /\ _max_items = a.max_items
    /\ _method = "unset"
    /\ server = ServerPages(sizes)
    /\ gens = [i \in 1..n |-> NoGen]
    /\ running = 0
    /\ matchedSent = <<>>
    /\ matchedResult = NoResult

\* What is explored: one generator over every server and every session with a
\* limit, or up to MaxCalls generators, pulled in any interleaving, over a
\* server of two pages of one record each.
Explored(a, sizes, n) ==
    /\ a.limit.some
    /\ n > 1 => sizes = <<1, 1>> /\ a.intersects.some

Init ==
    /\ \E a \in Args, sizes \in PageSizes, n \in 1..MaxCalls :
          Explored(a, sizes, n) /\ ItemSearch(a, sizes, n)
    /\ dtValue = Single(NoneValue)
    /\ dtResult = NotCalled

Next ==
    \/ \E i \in Gens : items(i)
    \/ \E i \in Gens : item_collections(i)
    \/ \E i \in Gens : next_items(i)
    \/ \E i \in Gens : next_item_collections(i)
    \/ \E i \in Gens : ReceivePage(i)
    \/ \E i \in Gens, code \in ErrorCodes : ReceiveError(i, code)

Spec == Init /\ [][Next]_vars

\* Sessions with the default method and no max_items whose consumer keeps
\* pulling: every generator that can run is eventually run, and every HTTP
\* call eventually ends.
InitFair ==
    /\ \E a \in Args, sizes \in PageSizes, n \in 1..MaxCalls :
          /\ Explored(a, sizes, n)
          /\ a.method = "POST" /\ a.intersects.some /\ ~a.max_items.some
          /\ ItemSearch(a, sizes, n)
    /\ dtValue = Single(NoneValue)
    /\ dtResult = NotCalled

FairSpec ==
    /\ InitFair /\ [][Next]_vars
    /\ \A i \in 1..MaxCalls : WF_vars(next_items(i)) /\ WF_vars(next_item_collections(i))
    /\ \A i \in 1..MaxCalls : WF_vars(ReceivePage(i) \/ \E code \in ErrorCodes : ReceiveError(i, code))

\* Sessions on which matched() is called too, at any point between the steps
\* of one generator.
InitMatched ==
    /\ \E a \in Args, sizes \in PageSizes :
          Len(sizes) <= 2 /\ ItemSearch(a, sizes, 1)
    /\ dtValue = Single(NoneValue)
    /\ dtResult = NotCalled

NextMatched ==
    \/ Next
    \/ matched
    \/ matched_error

SpecMatched == InitMatched /\ [][NextMatched]_vars

\* _format_datetime on every explored input.
InitDatetime ==
    /\ ItemSearch([method |-> "POST", intersects |-> None, limit |-> None,
                   max_items |-> None], <<0>>, 1)
    /\ dtValue \in DatetimeLike
    /\ dtResult = NotCalled

NextDatetime == format_datetime

SpecDatetime == InitDatetime /\ [][NextDatetime]_vars

(***************************************************************************)
(* Properties.                                                             *)
(***************************************************************************)
\* What the arguments of the construction describe.
InitialParameters == SearchParameters(args.limit, args.intersects)
InitialRequest == ItemSearchRequest(args.method, SearchUrl, InitialParameters)

Total == SumTo([k \in 1..Len(server) |-> Len(server[k])], Len(server))
FirstN(n) == [k \in 1..n |-> k]
Min(a, b) == IF a < b THEN a ELSE b
\* The page that holds record r, and the records of the pages before page k.
PageOf(r) == CHOOSE k \in 1..Len(server) : \E j \in DOMAIN server[k] : server[k][j] = r
Before(k) == SumTo([p \in 1..Len(server) |-> Len(server[p])], k - 1)

ErrorFree(g) == \A k \in DOMAIN g.log : g.log[k].status \in {0, StatusOK}
ItemGens == {i \in Gens : gens[i].kind = "items"}
PageGens == {i \in Gens : gens[i].kind = "item_collections"}
Restarted == {i \in Gens : gens[i].restartAt > 0}

\* C1: in a POST session whose first request of an items() traversal is answered
\* 405, the session's method becomes GET and the first request of the restarted
\* traversal is a GET with the search parameters as query parameters, no JSON body.
C1_DowngradeToGet ==
    \A i \in ItemGens :
        LET g == gens[i]
        IN (args.method = "POST" /\ g.restartAt = 1)
           => /\ method = "GET"
              /\ Len(g.log) > 1 =>
                    g.log[2].req = [method |-> "GET", url |-> SearchUrl,
                                    json |-> NoneMap, params |-> _search_parameters]

\* C2 as stated: over error-free pages items() yields the first min(m, total)
\* records in page order, everything when max_items is omitted, and once it is
\* over no request was issued after the one for the page of the last yielded record.
C2_NoRequestAfterLastRecord ==
    \A i \in ItemGens :
        LET g == gens[i]
            m == IF _max_items.some THEN Min(_max_items.val, Total) ELSE Total
        IN ErrorFree(g)
           => /\ g.out = FirstN(Len(g.out))
              /\ Len(g.out) <= m
              /\ g.phase = "done" => Len(g.out) = m
              /\ (g.phase = "done" /\ Len(g.out) > 0)
                    => Len(g.log) <= PageOf(g.out[Len(g.out)])

\* The pages an error-free items() traversal has to request: up to the page of
\* the max_items-th record when there is one, the whole chain otherwise.
PagesRequested ==
    IF _max_items.some /\ _max_items.val <= Total
    THEN (IF _max_items.val = 0 THEN 0 ELSE PageOf(_max_items.val))
    ELSE Len(server)

\* C2, amended: over error-free pages items() yields the first min(m, total)
\* records in page order; its requests are for pages 1, 2, ... in order; when the
\* m-th record exists no request follows the one for its page (no request at
\* all for m = 0), and otherwise every page of the chain is requested once.
C2_Truncation ==
    \A i \in ItemGens :
        LET g == gens[i]
            m == IF _max_items.some THEN Min(_max_items.val, Total) ELSE Total
        IN ErrorFree(g)
           => /\ g.out = FirstN(Len(g.out))
              /\ Len(g.out) <= m
              /\ g.phase = "done" => Len(g.out) = m
              /\ \A k \in DOMAIN g.log : g.log[k].req.url = k
              /\ Len(g.log) <= PagesRequested
              /\ g.phase = "done" => Len(g.log) = PagesRequested

\* Witness of C2: max_items = 3 over pages of 2 + 2 + 2 ended after two requests.
C2_Witness ==
    \E i \in ItemGens :
        /\ gens[i].phase = "done" /\ ErrorFree(gens[i])
        /\ _max_items = Some(3)
        /\ Len(server) = 3 /\ \A k \in 1..3 : Len(server[k]) = 2
        /\ gens[i].out = <<1, 2, 3>> /\ Len(gens[i].log) = 2

\* C3: an explicit method is used as given; with none given the method is POST
\* when intersects is present and GET otherwise; the search parameters are the
\* JSON body of a POST request and the query parameters of a GET request.
C3_MethodSelection ==
    /\ args.method # "None" => method = args.method
    /\ args.method = "None" => method = (IF args.intersects.some THEN "POST" ELSE "GET")
    /\ method \in {"GET", "POST"}
    /\ method = "POST" => /\ request[SelfRef].json = Some(InitialParameters)
                          /\ request[SelfRef].params = EmptyMap
    /\ method = "GET" => /\ request[SelfRef].params = InitialParameters
                         /\ request[SelfRef].json = NoneMap

\* C4: a session restarts on a 405 at most once over all its items() calls, and
\* never when its method is GET already.
C4_RestartAtMostOnce ==
    /\ Cardinality(Restarted) <= 1
    /\ \A i \in Restarted : gens[i].log[gens[i].restartAt].req.method # "GET"

\* C5: matched() sends exactly one request, the session's request with limit
\* overridden to 0; it raises when the response has no numberMatched and returns
\* numberMatched otherwise; the stored request, the search parameters and
\* max_items stay as constructed, and every traversal sends the requests it
\* sends on a session that never called matched().
C5_Matched ==
    /\ request[SelfRef] = InitialRequest
    /\ _search_parameters = InitialParameters
    /\ _max_items = args.max_items
    /\ \A i \in Gens : \A k \in DOMAIN gens[i].log :
          gens[i].log[k].req =
              [InitialRequest EXCEPT !.url = IF k > gens[i].restartAt
                                             THEN k - gens[i].restartAt ELSE k]
    /\ matchedResult.kind # "none"
          => /\ Len(matchedSent) = 1
             /\ matchedSent[1].method = args.method
             /\ matchedSent[1].url = SearchUrl
             /\ IF args.method = "POST"
                THEN /\ matchedSent[1].json = Some(Update(InitialParameters, "limit", 0))
                     /\ matchedSent[1].params = EmptyMap
                ELSE /\ matchedSent[1].params = Update(InitialParameters, "limit", 0)
                     /\ matchedSent[1].json = NoneMap
             /\ matchedResult.kind = "APIError" => ~matchedResult.resp.numberMatched.some
             /\ matchedResult.kind = "return"
                   => matchedResult.resp.numberMatched = Some(matchedResult.val)
             /\ matchedResult.kind \in {"APIError", "return", "HTTPError"}

\* Witness of C5: matched() raised for a missing count on a session with a limit
\* and a max_items, whose generator then requested a second page.
C5_Witness ==
    /\ matchedResult.kind = "APIError"
    /\ args.limit.some /\ args.max_items.some
    /\ \E i \in Gens : Len(gens[i].log) >= 2 /\ gens[i].log[2].status = StatusOK

\* C6: an error response other than 405 is the last request of its traversal:
\* it is raised to the consumer, after every record (page) of the pages before
\* the failing one was delivered, with the session's method unchanged.
C6_OtherErrorsPropagate ==
    \A i \in Gens : \A k \in DOMAIN gens[i].log :
        LET g == gens[i]
            e == g.log[k]
            n == IF g.kind = "items" THEN Before(e.req.url) ELSE e.req.url - 1
        IN e.status \notin {0, StatusOK, MethodNotAllowed}
           => /\ k = Len(g.log)
              /\ g.phase = "raised" /\ g.err = e.status
              /\ running # i
              /\ Len(g.out) >= n
              /\ SubSeq(g.out, Len(g.out) - n + 1, Len(g.out)) = FirstN(n)
              /\ method = args.method

\* Witness of C6: items() raised a 500 on its second page after the records of
\* the first.
C6_Witness ==
    \E i \in ItemGens :
        /\ gens[i].phase = "raised" /\ gens[i].err = ServerError
        /\ Len(gens[i].log) = 2 /\ Len(gens[i].out) = 2

\* C7: the session's request and search parameters stay as constructed, and the
\* first request of every traversal, restarted or not, is the initial request.
C7_FreshCopy ==
    /\ request[SelfRef] = InitialRequest
    /\ _search_parameters = InitialParameters
    /\ \A i \in Gens :
          LET g == gens[i]
          IN /\ Len(g.log) > 0 => g.log[1].req = InitialRequest
             /\ Len(g.log) > g.restartAt => g.log[g.restartAt + 1].req = InitialRequest

\* Witness of C7: two generators pulled in turn, the first left on its second
\* page, the second begun after it and on its second page too.
C7_Witness ==
    /\ 2 \in Gens
    /\ Live(gens[1]) /\ Len(gens[1].log) = 2
    /\ Live(gens[2]) /\ Len(gens[2].log) = 2 /\ gens[2].log[2].status = StatusOK

\* C8: _format_datetime returns None for None and otherwise one str: the token
\* of a single value, "start/end" for a range with ".." for None; a single
\* value is never wrapped in a container.
C8_OneCanonicalString ==
    dtResult # NotCalled
    => /\ dtResult.type = (IF dtValue.shape = "NoneType" THEN "NoneType" ELSE "str")
       /\ dtValue.shape \in {"str", "datetime"} /\ Len(dtValue.elems) = 1
             => dtResult.s = _format(dtValue.elems[1])
       /\ Len(dtValue.elems) = 2
             => dtResult.s = _format(dtValue.elems[1]) \o "/" \o _format(dtValue.elems[2])
       /\ dtValue = Single(DatetimeValue([year |-> 2020, month |-> 6, day |-> 1,
                                          hour |-> 12, minute |-> 0, second |-> 0,
                                          microsecond |-> 0, utcoffset |-> Some(120)]))
             => dtResult = StrResult("2020-06-01T10:00:00Z")

\* C9: one items() generator yields at most max_items records in all.
C9_AtMostMaxItems ==
    \A i \in ItemGens : _max_items.some => Len(gens[i].out) <= _max_items.val

\* The page protocol of one item_collections() generator, in a state.
PageProtocol(i) ==
    LET g == gens[i]
    IN /\ g.state \in {"HAS_NEXT", "DONE"}
       /\ g.phase = "created" => g.state = "HAS_NEXT" /\ g.log = <<>>
       /\ g.out = FirstN(Len(g.out))
       /\ Len(g.log) = Len(g.out) + (IF running = i \/ g.phase = "raised" THEN 1 ELSE 0)
       /\ Len(g.log) > 0 => g.log[1].req = InitialRequest
       /\ \A k \in DOMAIN g.log :
             /\ g.log[k].req.url = k
             /\ k > 1 => /\ Page(k - 1).next = Some(k)
                         /\ g.log[k].req = simple_stac_resolver(k, g.log[k - 1].req)
       /\ g.state = "DONE" <=> g.phase = "done"
       /\ g.state = "DONE" => /\ Len(g.out) = Len(server)
                              /\ ~Page(Len(g.out)).next.some
                              /\ running # i

\* C10: an item_collections() generator starts in HAS_NEXT with the initial
\* request; each step issues one request and yields its page; the next request
\* is the resolver's, so pages come in link order; with no next link the
\* generator is DONE and issues nothing more; and a consumer that keeps pulling
\* reaches DONE unless an error ends the traversal.
C10_PageProtocol ==
    /\ [](\A i \in PageGens : PageProtocol(i))
    /\ [][\A i \in PageGens : gens[i].state = "DONE" => gens'[i] = gens[i]]_vars
    /\ \A i \in 1..MaxCalls :
          (i \in PageGens) ~> (i \in PageGens /\ (gens[i].state = "DONE" \/ gens[i].phase = "raised"))

\* Witness of C10: a generator that is DONE after yielding three pages.
C10_Witness ==
    \E i \in PageGens : gens[i].state = "DONE" /\ gens[i].out = <<1, 2, 3>>

====
